---- MODULE Spec2Model ----
(***************************************************************************)
(* GDP dashboard: the data access layer (src/services/worldBankAPI.ts: a   *)
(* process-wide cache with a 24 hour freshness window in front of two      *)
(* remote queries, and the growth pass over a GDP series) and the series   *)
(* analytics of the Timeline component (src/components/Timeline.tsx: the   *)
(* year-aligned rows and the two-country comparison metrics).              *)
(*                                                                         *)
(* Numbers are JavaScript numbers without rounding: a finite number is an  *)
(* exact fraction n/d, and NaN, Infinity and -Infinity are values of their *)
(* own, so that a division by zero or by an absent value yields what the   *)
(* program's arithmetic yields.  null and undefined are values too.        *)
(***************************************************************************)
EXTENDS Integers, Sequences, FiniteSets, TLC

VARIABLES
    now,            \* Date.now(), in milliseconds
    cache,          \* the module-level cache: key -> entry
    calls,          \* the calls of fetchGDPData / fetchCountries, by call id
    gdpRecords,     \* growth pass: the records element of one response
    gdpSeries,      \* growth pass: what the two map passes make of it
    countryData,    \* Timeline: the countryData prop
    selectedPeriod, \* Timeline: the selectedPeriod prop
    comparisonMode, \* Timeline: the comparisonMode prop
    rendered,       \* Timeline: the outcome of one render
    selectedCountries,  \* App: useState(['USA'])
    appCountryData,     \* App: the countryData state, code -> CountryData
    timeRange,          \* App: useState([1980, 2023])
    loading,            \* App: useState(true)
    error,              \* App: useState(null)
    availableCountries, \* App: useState([])
    countriesLoad,      \* App: where the loadCountries of the mount is
    loads,              \* App: the runs of loadData, by load id
    displayedFrom       \* App: the load whose setCountryData came last (0: none)

appVars == <<selectedCountries, appCountryData, timeRange, loading, error,
             availableCountries, countriesLoad, loads, displayedFrom>>

vars == <<now, cache, calls, gdpRecords, gdpSeries,
          countryData, selectedPeriod, comparisonMode, rendered, appVars>>

serviceVars == <<now, cache, calls>>
growthVars == <<gdpRecords, gdpSeries>>
timelineVars == <<countryData, selectedPeriod, comparisonMode, rendered>>

----------------------------------------------------------------------------
(* Bounds of the model.                                                    *)

MaxCalls == 2       \* calls of the data access layer in one behaviour
MaxDays == 2        \* the clock runs to MaxDays * 24h
MaxRecords == 3     \* records in one GDP response of the growth pass
MaxValue == 2       \* GDP values are 0 .. MaxValue
MaxLoads == 3       \* runs of loadData in one behaviour

----------------------------------------------------------------------------
(* JavaScript values and arithmetic.                                       *)

Abs(x) == IF x < 0 THEN -x ELSE x

RECURSIVE GCD(_, _)
GCD(a, b) == IF b = 0 THEN a ELSE GCD(b, a % b)

\* the finite number n/d (d # 0), in lowest terms with a positive denominator
Fin(n, d) ==
    LET g == GCD(Abs(n), Abs(d))
        s == IF d < 0 THEN -1 ELSE 1
    IN  [k |-> "fin", n |-> (s * n) \div g, d |-> (s * d) \div g]

Num(i) == [k |-> "fin", n |-> i, d |-> 1]
NaN == [k |-> "nan", n |-> 0, d |-> 1]
PosInf == [k |-> "inf", n |-> 0, d |-> 1]
NegInf == [k |-> "ninf", n |-> 0, d |-> 1]
Null == [k |-> "null", n |-> 0, d |-> 1]
Undefined == [k |-> "undefined", n |-> 0, d |-> 1]

IsFinite(x) == x.k = "fin"

\* ToNumber: null is 0, undefined is NaN
ToNumber(v) ==
    IF v.k = "null" THEN Num(0)
    ELSE IF v.k = "undefined" THEN NaN
    ELSE v

Sign(x) ==
    CASE x.k = "inf" -> 1
      [] x.k = "ninf" -> -1
      [] OTHER -> IF x.n > 0 THEN 1 ELSE IF x.n < 0 THEN -1 ELSE 0

JSNeg(x) ==
    CASE x.k = "fin" -> [k |-> "fin", n |-> 0 - x.n, d |-> x.d]
      [] x.k = "inf" -> NegInf
      [] x.k = "ninf" -> PosInf
      [] OTHER -> NaN

JSAddNum(a, b) ==
    CASE a.k = "nan" \/ b.k = "nan" -> NaN
      [] a.k = "fin" /\ b.k = "fin" -> Fin(a.n * b.d + b.n * a.d, a.d * b.d)
      [] a.k = "fin" -> b
      [] b.k = "fin" -> a
      [] a.k = b.k -> a
      [] OTHER -> NaN

\* a + b, a - b, a * b, a / b on operands converted with ToNumber
JSAdd(a, b) == JSAddNum(ToNumber(a), ToNumber(b))

JSSub(a, b) == JSAddNum(ToNumber(a), JSNeg(ToNumber(b)))

JSMulNum(a, b) ==
    CASE a.k = "nan" \/ b.k = "nan" -> NaN
      [] a.k = "fin" /\ b.k = "fin" -> Fin(a.n * b.n, a.d * b.d)
      [] Sign(a) * Sign(b) = 0 -> NaN
      [] Sign(a) * Sign(b) > 0 -> PosInf
      [] OTHER -> NegInf

JSMul(a, b) == JSMulNum(ToNumber(a), ToNumber(b))

JSDivNum(a, b) ==
    CASE a.k = "nan" \/ b.k = "nan" -> NaN
      [] a.k = "fin" /\ b.k = "fin" ->
            IF b.n # 0 THEN Fin(a.n * b.d, a.d * b.n)
            ELSE IF a.n = 0 THEN NaN
            ELSE IF a.n > 0 THEN PosInf ELSE NegInf
      [] a.k # "fin" /\ b.k # "fin" -> NaN
      [] a.k = "fin" -> Num(0)
      [] OTHER -> IF Sign(a) * Sign(b) < 0 THEN NegInf ELSE PosInf

JSDiv(a, b) == JSDivNum(ToNumber(a), ToNumber(b))

JSLtNum(a, b) ==
    CASE a.k = "nan" \/ b.k = "nan" -> FALSE
      [] a.k = "fin" /\ b.k = "fin" -> a.n * b.d < b.n * a.d
      [] a.k = "ninf" -> b.k # "ninf"
      [] b.k = "inf" -> a.k # "inf"
      [] OTHER -> FALSE

\* a < b and a > b: false whenever an operand is NaN
JSLt(a, b) == JSLtNum(ToNumber(a), ToNumber(b))

JSGt(a, b) == JSLtNum(ToNumber(b), ToNumber(a))

\* parseInt of a string of decimal digits, given as the sequence of its digits
RECURSIVE ParseInt(_)
ParseInt(digits) ==
    IF digits = <<>> THEN 0
    ELSE 10 * ParseInt(SubSeq(digits, 1, Len(digits) - 1)) + digits[Len(digits)]

----------------------------------------------------------------------------
(* The remote service: what a request can bring back.                      *)

\* a GDP record {date, value}: date is a year as a string, value a number or null
GDPRecord(date, value) == [date |-> date, value |-> value]

Date2000 == <<2, 0, 0, 0>>
Date2001 == <<2, 0, 0, 1>>
Date2002 == <<2, 0, 0, 2>>
Dates == {Date2000, Date2001, Date2002}

\* response.data[1] of the indicator query, most recent year first
GDPPayloads ==
    { <<>>,
      <<GDPRecord(Date2001, Num(2)), GDPRecord(Date2000, Num(1))>>,
      <<GDPRecord(Date2002, Num(2)), GDPRecord(Date2001, Null),
        GDPRecord(Date2000, Num(1))>> }

\* "error": the request rejects; "missing": response.data[1] is undefined;
\* "null": it is null; "malformed": it is no array; "records": it is an array
FailureKinds == {"error", "missing", "null", "malformed"}

Response(kind, records) == [kind |-> kind, records |-> records]

NoResponse == Response("none", <<>>)

GDPResponses ==
    {Response(k, <<>>) : k \in FailureKinds}
        \cup {Response("records", p) : p \in GDPPayloads}

\* a country record {id, name, region: {value}, capitalCity}; region is
\* "undefined" when the record has no region object, and capitalCity is ""
\* for an aggregate and "undefined" when the attribute is absent
CountryRecord(id, name, region, capitalCity) ==
    [id |-> id, name |-> name, region |-> region, capitalCity |-> capitalCity]

USA == CountryRecord("USA", "United States", "North America", "Washington D.C.")
IND == CountryRecord("IND", "India", "South Asia", "New Delhi")
WLD == CountryRecord("WLD", "World", "Aggregates", "")
EUU == CountryRecord("EUU", "European Union", "Aggregates", "undefined")
XKX == CountryRecord("XKX", "Kosovo", "undefined", "Pristina")

\* response.data[1] of the country query
CountryPayloads ==
    { <<>>, <<WLD>>, <<USA, WLD, IND>>, <<EUU, IND, USA>>, <<USA, XKX>> }

CountryResponses ==
    {Response(k, <<>>) : k \in {"error", "missing"}}
        \cup {Response("records", p) : p \in CountryPayloads}

----------------------------------------------------------------------------
(* worldBankAPI.ts                                                         *)

CACHE_DURATION == 24 * 60 * 60 * 1000

\* the (countryCode, startYear, endYear) the model calls fetchGDPData with
Queries == {<<"USA", 1980, 2023>>, <<"IND", 2000, 2023>>}

CountriesKey == "countries"

GDPKey(countryCode, startYear, endYear) ==
    "gdp-" \o countryCode \o "-" \o ToString(startYear) \o "-" \o ToString(endYear)

\* the country codes and year ranges the App asks for
Codes == {"USA", "IND"}
Ranges == {<<1980, 2023>>, <<2000, 2023>>, <<1980, 2010>>, <<2000, 2010>>}

Keys == {CountriesKey} \cup {GDPKey(c, r[1], r[2]) : c \in Codes, r \in Ranges}

NoEntry == [present |-> FALSE, data |-> <<>>, timestamp |-> 0]

CacheItem(data, timestamp) == [present |-> TRUE, data |-> data, timestamp |-> timestamp]

isCacheValidInclusive(timestamp) == now - timestamp <= CACHE_DURATION

isCacheValid(timestamp) == now - timestamp < CACHE_DURATION

\* cache[cacheKey] && isCacheValid(cache[cacheKey].timestamp)
CacheHit(key) == cache[key].present /\ isCacheValid(cache[key].timestamp)

Truthy(s) == s # "" /\ s # "undefined"

HasCapital(country) == Truthy(country.capitalCity)

KeepAllCountries(records) == records

\* response.data[1].filter(country => country.capitalCity)
FilterCountries(records) == SelectSeq(records, HasCapital)

MapCountry(country) ==
    [code |-> country.id, name |-> country.name, region |-> country.region]

\* the outcome of fetchCountries' try block on a response: it throws when the
\* request rejects, when response.data[1] has no filter method, and when a
\* kept record has no region object (country.region.value)
CountriesOutcome(resp) ==
    IF resp.kind # "records" THEN [ok |-> FALSE, data |-> <<>>]
    ELSE LET kept == FilterCountries(resp.records)
         IN  IF \E i \in 1..Len(kept) : kept[i].region = "undefined"
             THEN [ok |-> FALSE, data |-> <<>>]
             ELSE [ok |-> TRUE, data |-> [i \in 1..Len(kept) |-> MapCountry(kept[i])]]

\* response.data[1].map(item => ({year: parseInt(item.date), value, growth: 0}))
MapRecords(records) ==
    [i \in 1..Len(records) |->
        [year |-> ParseInt(records[i].date), value |-> records[i].value,
         growth |-> Num(0)]]

\* growth against the point of the calendar-previous year, when there is one
GrowthByYear(data) ==
    [i \in 1..Len(data) |->
        [data[i] EXCEPT !.growth =
            IF \E j \in 1..Len(data) : data[j].year = data[i].year - 1
            THEN LET j == CHOOSE j \in 1..Len(data) : data[j].year = data[i].year - 1
                 IN  JSMul(JSDiv(JSSub(data[i].value, data[j].value),
                                 data[j].value), Num(100))
            ELSE Num(0)]]

\* data.map((item, index) => ({...item, growth: index === 0 ? 0 : ...}))
DataWithGrowth(data) ==
    [i \in 1..Len(data) |->
        [data[i] EXCEPT !.growth =
            IF i = 1 THEN Num(0)
            ELSE JSMul(JSDiv(JSSub(data[i].value, data[i - 1].value),
                             data[i - 1].value), Num(100))]]

\* the outcome of fetchGDPData's try block on a response: it throws when the
\* request rejects, when !response.data[1], and when response.data[1] has no
\* map method; an array, also an empty one, is mapped
GDPOutcome(resp) ==
    IF resp.kind # "records" THEN [ok |-> FALSE, data |-> <<>>]
    ELSE [ok |-> TRUE, data |-> DataWithGrowth(MapRecords(resp.records))]

CacheCleared(key, outcome) ==
    IF outcome.ok THEN [cache EXCEPT ![key] = CacheItem(outcome.data, now)]
    ELSE [cache EXCEPT ![key] = NoEntry]

\* cache[cacheKey] = {data, timestamp: Date.now()} at the end of the try block;
\* the catch block leaves the cache alone
CacheAfter(key, outcome) ==
    IF outcome.ok THEN [cache EXCEPT ![key] = CacheItem(outcome.data, now)]
    ELSE cache

IdleCall ==
    [pc |-> "idle", op |-> "none", key |-> "", age |-> -1,
     issued |-> FALSE, raw |-> NoResponse, result |-> <<>>]

CallIds == 1..MaxCalls

\* the clock readings of the model: each multiple of 24h up to MaxDays days,
\* and 1 ms before it
Instants ==
    {t \in {d * CACHE_DURATION - e : d \in 0..MaxDays, e \in {0, 1}} : t >= 0}

\* the parts of the state a specification does not use
ServiceIdle ==
    /\ now = 0
    /\ cache = [key \in Keys |-> NoEntry]
    /\ calls = [c \in CallIds |-> IdleCall]

GrowthIdle ==
    /\ gdpRecords = <<>>
    /\ gdpSeries = [done |-> FALSE, data |-> <<>>]

NotRendered ==
    [status |-> "none", combinedData |-> <<>>,
     metrics |-> [kind |-> "none", startingRatio |-> NaN, endingRatio |-> NaN,
                  averageGrowthDiff |-> NaN, overtakes |-> <<>>]]

TimelineIdle ==
    /\ countryData = <<>>
    /\ selectedPeriod = <<0, 0>>
    /\ comparisonMode = FALSE
    /\ rendered = NotRendered

NoLoad ==
    [pc |-> "idle", selection |-> <<>>, range |-> <<0, 0>>, names |-> <<>>,
     requests |-> <<>>, newData |-> [code \in {} |-> <<>>]]

LoadIds == 1..MaxLoads

AppIdle ==
    /\ selectedCountries = <<>>
    /\ appCountryData = [code \in {} |-> <<>>]
    /\ timeRange = <<0, 0>>
    /\ loading = FALSE
    /\ error = "null"
    /\ availableCountries = <<>>
    /\ countriesLoad = "idle"
    /\ loads = [l \in LoadIds |-> NoLoad]
    /\ displayedFrom = 0

ServiceInit ==
    /\ now = 0
    /\ cache = [key \in Keys |-> NoEntry]
    /\ calls = [c \in CallIds |-> IdleCall]

\* time passes
Tick ==
    /\ \E t \in Instants : t > now /\ now' = t
    /\ UNCHANGED <<cache, calls, growthVars, timelineVars, appVars>>

\* call ids are handed out in order
CanStart(c) ==
    /\ calls[c].pc = "idle"
    /\ IF c = 1 THEN TRUE ELSE calls[c - 1].pc # "idle"

\* the age of the entry a call finds under its key, -1 when there is none
EntryAge(key) == IF cache[key].present THEN now - cache[key].timestamp ELSE -1

\* Start with a read that renews the timestamp of the entry it returns
StartRefreshing(c, op, key) ==
    /\ CanStart(c)
    /\ calls' = [calls EXCEPT ![c] =
            IF CacheHit(key)
            THEN [IdleCall EXCEPT !.pc = "returned", !.op = op, !.key = key,
                                  !.age = EntryAge(key),
                                  !.result = cache[key].data]
            ELSE [IdleCall EXCEPT !.pc = "awaiting", !.op = op, !.key = key,
                                  !.age = EntryAge(key),
                                  !.issued = TRUE]]
    /\ cache' = IF CacheHit(key) THEN [cache EXCEPT ![key].timestamp = now] ELSE cache
    /\ UNCHANGED <<now, growthVars, timelineVars, appVars>>

\* a call up to its first await: the cache check, and the request on a miss
\* (age records what the check saw, issued whether a request went out)
Start(c, op, key) ==
    /\ CanStart(c)
    /\ calls' = [calls EXCEPT ![c] =
            IF CacheHit(key)
            THEN [IdleCall EXCEPT !.pc = "returned", !.op = op, !.key = key,
                                  !.age = EntryAge(key),
                                  !.result = cache[key].data]
            ELSE [IdleCall EXCEPT !.pc = "awaiting", !.op = op, !.key = key,
                                  !.age = EntryAge(key),
                                  !.issued = TRUE]]
    /\ UNCHANGED <<now, cache, growthVars, timelineVars, appVars>>

\* a call from the response on: the rest of the try block, or the catch block
Complete(c, resp, outcome) ==
    /\ calls[c].pc = "awaiting"
    /\ cache' = CacheAfter(calls[c].key, outcome)
    /\ calls' = [calls EXCEPT ![c] =
            [@ EXCEPT !.pc = IF outcome.ok THEN "returned" ELSE "failed",
                      !.raw = resp, !.result = outcome.data]]
    /\ UNCHANGED <<now, growthVars, timelineVars, appVars>>

StartFetchCountries == \E c \in CallIds : Start(c, "countries", CountriesKey)

CompleteFetchCountries ==
    \E c \in CallIds, resp \in CountryResponses :
        /\ calls[c].op = "countries"
        /\ Complete(c, resp, CountriesOutcome(resp))

StartFetchGDP ==
    \E c \in CallIds, q \in Queries :
        Start(c, "gdp", GDPKey(q[1], q[2], q[3]))

CompleteFetchGDP ==
    \E c \in CallIds, resp \in GDPResponses :
        /\ calls[c].op = "gdp"
        /\ Complete(c, resp, GDPOutcome(resp))

Next ==
    \/ Tick
    \/ StartFetchCountries
    \/ CompleteFetchCountries
    \/ StartFetchGDP
    \/ CompleteFetchGDP

Init ==
    /\ ServiceInit
    /\ GrowthIdle
    /\ TimelineIdle
    /\ AppIdle

Spec == Init /\ [][Next]_vars

----------------------------------------------------------------------------
(* Claims about the cache and the two fetch operations, under Spec.        *)

GDPCalls == {c \in CallIds : calls[c].op = "gdp"}
CountriesCalls == {c \in CallIds : calls[c].op = "countries"}
GDPKeys == Keys \ {CountriesKey}

\* C1: two calls of fetchGDPData with the same arguments less than 24 hours
\* apart issue at most one request between them, and return the same data.
\* (While now < 24h every two calls made so far are less than 24h apart.)
C1_CacheIdempotence ==
    now < CACHE_DURATION =>
        \A c1, c2 \in GDPCalls :
            (c1 # c2 /\ calls[c1].key = calls[c2].key) =>
                /\ ~(calls[c1].issued /\ calls[c2].issued)
                /\ (calls[c1].pc = "returned" /\ calls[c2].pc = "returned")
                      => calls[c1].result = calls[c2].result

\* C2: an entry is valid exactly while now - timestamp < 24h: a call that
\* finds an entry of age >= 24h issues a request as if there were none, a
\* call that finds a younger one issues none and returns its data, and a call
\* that succeeds after a request overwrites the entry with its data and the
\* time of the write.
C2_ExpiryAt24h ==
    [][\A c \in CallIds :
          /\ (calls[c].pc = "idle" /\ calls'[c].pc # "idle") =>
                LET entry == cache[calls'[c].key]
                IN  /\ (entry.present /\ now - entry.timestamp >= 24 * 60 * 60 * 1000)
                          => (calls'[c].pc = "awaiting" /\ calls'[c].issued)
                    /\ (entry.present /\ now - entry.timestamp < 24 * 60 * 60 * 1000)
                          => /\ calls'[c].pc = "returned"
                             /\ ~calls'[c].issued
                             /\ calls'[c].result = entry.data
                    /\ ~entry.present => (calls'[c].pc = "awaiting" /\ calls'[c].issued)
          /\ (calls[c].pc = "awaiting" /\ calls'[c].pc = "returned") =>
                cache'[calls[c].key] =
                    [present |-> TRUE, data |-> calls'[c].result, timestamp |-> now]
      ]_vars

\* a call found an entry exactly 24h old, issued a request and overwrote the
\* entry with what it got
C2_Witness ==
    \E c \in GDPCalls :
        /\ calls[c].age = CACHE_DURATION
        /\ calls[c].issued
        /\ calls[c].pc = "returned"
        /\ cache[calls[c].key] = CacheItem(calls[c].result, now)
        /\ cache[calls[c].key].timestamp > CACHE_DURATION

\* C3: a call that fails leaves the cache as it was: neither its request nor
\* its failure adds, removes or changes an entry.
C3_FailureLeavesCache ==
    [][\A c \in CallIds :
          (calls'[c] # calls[c] /\ calls'[c].pc \in {"awaiting", "failed"})
              => cache' = cache
      ]_vars

\* a call has failed on a response without records while its key has an entry
C3_Witness ==
    \E c \in GDPCalls :
        /\ calls[c].pc = "failed"
        /\ calls[c].raw.kind = "null"
        /\ calls[c].age >= CACHE_DURATION
        /\ cache[calls[c].key].present

\* C4: fetchGDPData fails whenever the response carries no time series, be
\* the records element missing, null or an empty list, and no empty series is
\* returned or cached.
C4_NoDataFails ==
    /\ \A c \in GDPCalls :
          (\/ calls[c].raw.kind \in {"missing", "null"}
           \/ calls[c].raw.kind = "records" /\ calls[c].raw.records = <<>>)
              => calls[c].pc = "failed"
    /\ \A c \in GDPCalls : calls[c].pc = "returned" => calls[c].result # <<>>
    /\ \A key \in GDPKeys : cache[key].present => cache[key].data # <<>>

\* C14: a call that finds a present entry younger than 24h returns the
\* entry's data without a request and leaves the whole cache, the entry's
\* timestamp included, as it is; and an entry only ever changes in the step
\* in which a call for its own key succeeds after a request.
C14_HitLeavesCache ==
    [][/\ \A c \in CallIds :
            (/\ calls[c].pc = "idle" /\ calls'[c].pc # "idle"
             /\ cache[calls'[c].key].present
             /\ now - cache[calls'[c].key].timestamp < 24 * 60 * 60 * 1000)
                => /\ calls'[c].pc = "returned"
                   /\ ~calls'[c].issued
                   /\ calls'[c].result = cache[calls'[c].key].data
                   /\ cache' = cache
       /\ \A key \in Keys :
            cache'[key] # cache[key] =>
                \E c \in CallIds :
                    /\ calls[c].key = key
                    /\ calls[c].pc = "awaiting" /\ calls'[c].pc = "returned"
      ]_vars

\* an entry written at time 0 has been read 1 ms before its 24 hours are
\* over, and still carries the time of its write
C14_Witness ==
    \E c \in CallIds :
        /\ calls[c].pc = "returned" /\ ~calls[c].issued
        /\ calls[c].age = CACHE_DURATION - 1
        /\ now = CACHE_DURATION - 1
        /\ cache[calls[c].key].timestamp = 0

\* C10: fetchCountries returns the records that have a capital city, in the
\* service's order, each as {code, name, region}: after a request, those of
\* its response; on a cache hit, what an earlier request returned.
WithCapital(records) ==
    {i \in 1..Len(records) : records[i].capitalCity \notin {"", "undefined"}}

IsCountriesOf(result, records) ==
    LET kept == WithCapital(records)
    IN  /\ Len(result) = Cardinality(kept)
        /\ \A j \in 1..Len(result) :
              LET i == CHOOSE i \in kept : Cardinality({k \in kept : k <= i}) = j
              IN  result[j] = [code |-> records[i].id, name |-> records[i].name,
                               region |-> records[i].region]

C10_OnlyCountriesWithCapital ==
    \A c \in CountriesCalls :
        calls[c].pc = "returned" =>
            IF calls[c].issued
            THEN IsCountriesOf(calls[c].result, calls[c].raw.records)
            ELSE \E d \in CountriesCalls :
                    /\ calls[d].issued
                    /\ calls[d].pc = "returned"
                    /\ IsCountriesOf(calls[c].result, calls[d].raw.records)

\* a cache hit returns two countries of a response that also held an aggregate
C10_Witness ==
    \E c, d \in CountriesCalls :
        /\ calls[c].pc = "returned" /\ ~calls[c].issued
        /\ calls[d].pc = "returned" /\ calls[d].issued
        /\ Len(calls[d].raw.records) = 3
        /\ Len(calls[c].result) = 2
        /\ calls[c].result = calls[d].result

----------------------------------------------------------------------------
(* The growth pass of fetchGDPData on every response of up to MaxRecords   *)
(* records.                                                                *)

Values == {Null} \cup {Num(v) : v \in 0..MaxValue}

GDPRecords == {GDPRecord(d, v) : d \in Dates, v \in Values}

InitGrowth ==
    /\ gdpRecords \in UNION {[1..n -> GDPRecords] : n \in 0..MaxRecords}
    /\ gdpSeries = [done |-> FALSE, data |-> <<>>]
    /\ ServiceIdle
    /\ TimelineIdle
    /\ AppIdle

\* lines 76-86 of fetchGDPData on response.data[1] = gdpRecords
GrowthPass ==
    /\ ~gdpSeries.done
    /\ gdpSeries' = [done |-> TRUE, data |-> GDPOutcome(Response("records", gdpRecords)).data]
    /\ UNCHANGED <<gdpRecords, serviceVars, timelineVars, appVars>>

NextGrowth == GrowthPass

SpecGrowth == InitGrowth /\ [][NextGrowth]_vars

----------------------------------------------------------------------------
(* Claims about the growth pass, under SpecGrowth.                         *)

YearOf(date) == 1000 * date[1] + 100 * date[2] + 10 * date[3] + date[4]

IsNumber(v) == v.k = "fin"

\* C6: a record whose value is null does not make the call fail, comes back
\* as no ordinary point with a finite growth, and is not the predecessor,
\* taken as 0, in the growth of the next point.
C6_NullValueSkipped ==
    gdpSeries.done =>
        \A i \in 1..Len(gdpRecords) :
            gdpRecords[i].value = Null =>
                /\ \A j \in 1..Len(gdpSeries.data) :
                      (gdpSeries.data[j].year = YearOf(gdpRecords[i].date)
                          /\ gdpSeries.data[j].value = Null)
                          => ~IsFinite(gdpSeries.data[j].growth)
                /\ (/\ i < Len(gdpRecords)
                    /\ Len(gdpSeries.data) = Len(gdpRecords)
                    /\ IsNumber(gdpRecords[i + 1].value)
                    /\ gdpRecords[i + 1].value.n # 0)
                      => gdpSeries.data[i + 1].growth.k \notin {"inf", "ninf"}

\* C9: the returned points keep the order, years and values of the records;
\* the growth of the first is 0 and the growth of every other point is
\* (value - previous value) / previous value * 100 against the point before
\* it in the returned order, whatever its year: a finite number g with
\* g * previous = (value - previous) * 100 when the previous value is a
\* number other than 0, and no finite number when it is 0 or null.
C9_GrowthByPosition ==
    gdpSeries.done =>
        /\ Len(gdpSeries.data) = Len(gdpRecords)
        /\ \A i \in 1..Len(gdpRecords) :
              LET point == gdpSeries.data[i]
              IN  /\ point.year = YearOf(gdpRecords[i].date)
                  /\ point.value = gdpRecords[i].value
                  /\ i = 1 => point.growth = Num(0)
                  /\ i > 1 =>
                        LET value == gdpRecords[i].value
                            previous == gdpRecords[i - 1].value
                        IN  /\ (IsNumber(value) /\ IsNumber(previous) /\ previous.n # 0)
                                  => /\ IsFinite(point.growth)
                                     /\ point.growth.n * previous.n
                                          = (value.n - previous.n) * 100 * point.growth.d
                            /\ (previous = Null \/ previous = Num(0))
                                  => ~IsFinite(point.growth)

\* two numbers two years apart follow each other, and the later in the order
\* has its growth against the earlier
C9_Witness ==
    /\ gdpSeries.done
    /\ \E i \in 2..Len(gdpSeries.data) :
          /\ gdpSeries.data[i].year = gdpSeries.data[i - 1].year - 2
          /\ gdpSeries.data[i - 1].value = Num(2)
          /\ gdpSeries.data[i].value = Num(1)
          /\ gdpSeries.data[i].growth = Num(-50)

----------------------------------------------------------------------------
(* Timeline.tsx: the combinedData and comparisonMetrics memos.             *)

\* an aligned row: the year and the fields `${country.id}_value` and
\* `${country.id}_growth` that were assigned to it
NoFields == [key \in {} |-> Undefined]

Assign(fields, key, value) ==
    [x \in DOMAIN fields \cup {key} |-> IF x = key THEN value ELSE fields[x]]

\* row[key]: undefined when the row has no such field
Get(row, key) == IF key \in DOMAIN row.fields THEN row.fields[key] ELSE Undefined

ValueKey(country) == country.id \o "_value"
GrowthKey(country) == country.id \o "_growth"

\* allYears after the two forEach loops: the years in insertion order, each once
RECURSIVE AddYears(_, _)
AddYears(allYears, gdpData) ==
    IF gdpData = <<>> THEN allYears
    ELSE AddYears(IF \E i \in 1..Len(allYears) : allYears[i] = Head(gdpData).year
                  THEN allYears
                  ELSE Append(allYears, Head(gdpData).year),
                  Tail(gdpData))

RECURSIVE AllYears(_, _)
AllYears(allYears, countries) ==
    IF countries = <<>> THEN allYears
    ELSE AllYears(AddYears(allYears, Head(countries).gdpData), Tail(countries))

RECURSIVE Insert(_, _)
Insert(sorted, y) ==
    IF sorted = <<>> THEN <<y>>
    ELSE IF y < Head(sorted) THEN <<y>> \o sorted
    ELSE <<Head(sorted)>> \o Insert(Tail(sorted), y)

\* .sort((a, b) => a - b)
RECURSIVE SortAscending(_)
SortAscending(years) ==
    IF years = <<>> THEN <<>>
    ELSE Insert(SortAscending(Tail(years)), Head(years))

KeepAllYears(years, period) == years

\* .filter(year => year >= selectedPeriod[0] && year <= selectedPeriod[1])
RECURSIVE FilterPeriod(_, _)
FilterPeriod(years, period) ==
    IF years = <<>> THEN <<>>
    ELSE (IF Head(years) >= period[1] /\ Head(years) <= period[2]
          THEN <<Head(years)>> ELSE <<>>) \o FilterPeriod(Tail(years), period)

\* country.gdpData.find(d => d.year === year): the first such point
Find(gdpData, year) ==
    IF \E i \in 1..Len(gdpData) : gdpData[i].year = year
    THEN LET i == CHOOSE i \in 1..Len(gdpData) :
                    /\ gdpData[i].year = year
                    /\ \A j \in 1..(i - 1) : gdpData[j].year # year
         IN  [found |-> TRUE, point |-> gdpData[i]]
    ELSE [found |-> FALSE, point |-> [year |-> year, value |-> Undefined, growth |-> Undefined]]

\* the countryData.forEach of one row
RECURSIVE RowFields(_, _, _)
RowFields(fields, countries, year) ==
    IF countries = <<>> THEN fields
    ELSE LET country == Head(countries)
             yearData == Find(country.gdpData, year)
         IN  RowFields(IF yearData.found
                       THEN Assign(Assign(fields, ValueKey(country), yearData.point.value),
                                   GrowthKey(country), yearData.point.growth)
                       ELSE fields,
                       Tail(countries), year)

CombinedData(countries, period) ==
    LET years == FilterPeriod(SortAscending(AllYears(<<>>, countries)), period)
    IN  [i \in 1..Len(years) |->
            [year |-> years[i], fields |-> RowFields(NoFields, countries, years[i])]]

\* data[`${country1.id}_value`] / data[`${country2.id}_value`]
Ratio(row, country1, country2) ==
    JSDiv(Get(row, ValueKey(country1)), Get(row, ValueKey(country2)))

\* (prevRatio < 1 && currentRatio > 1) || (prevRatio > 1 && currentRatio < 1)
Crosses(prevRatio, currentRatio) ==
    \/ JSLt(prevRatio, Num(1)) /\ JSGt(currentRatio, Num(1))
    \/ JSGt(prevRatio, Num(1)) /\ JSLt(currentRatio, Num(1))

\* the walk against the starting ratio, prevRatio never updated
RECURSIVE OvertakesFromStart(_, _, _, _, _)
OvertakesFromStart(rows, index, prevRatio, country1, country2) ==
    IF index > Len(rows) THEN <<>>
    ELSE LET currentRatio == Ratio(rows[index], country1, country2)
         IN  (IF Crosses(prevRatio, currentRatio)
              THEN <<[year |-> rows[index].year,
                      country |-> IF JSGt(currentRatio, Num(1))
                                  THEN country1.name ELSE country2.name]>>
              ELSE <<>>)
             \o OvertakesFromStart(rows, index + 1, prevRatio, country1, country2)

\* combinedData.forEach from index 1 on (0-based), prevRatio carried along
RECURSIVE Overtakes(_, _, _, _, _)
Overtakes(rows, index, prevRatio, country1, country2) ==
    IF index > Len(rows) THEN <<>>
    ELSE LET currentRatio == Ratio(rows[index], country1, country2)
         IN  (IF Crosses(prevRatio, currentRatio)
              THEN <<[year |-> rows[index].year,
                      country |-> IF JSGt(currentRatio, Num(1))
                                  THEN country1.name ELSE country2.name]>>
              ELSE <<>>)
             \o Overtakes(rows, index + 1, currentRatio, country1, country2)

\* combinedData.reduce over the rows from index 1 on (0-based), from 0
RECURSIVE TotalGrowthDiff(_, _, _, _, _)
TotalGrowthDiff(rows, index, acc, country1, country2) ==
    IF index > Len(rows) THEN acc
    ELSE TotalGrowthDiff(rows, index + 1,
            JSAdd(acc, JSSub(Get(rows[index], GrowthKey(country1)),
                             Get(rows[index], GrowthKey(country2)))),
            country1, country2)

Metrics(kind, startingRatio, endingRatio, averageGrowthDiff, overtakes) ==
    [kind |-> kind, startingRatio |-> startingRatio, endingRatio |-> endingRatio,
     averageGrowthDiff |-> averageGrowthDiff, overtakes |-> overtakes]

NullMetrics == Metrics("null", NaN, NaN, NaN, <<>>)

\* a TypeError: firstYear is undefined when combinedData is empty
ThrownMetrics == Metrics("threw", NaN, NaN, NaN, <<>>)

ComparisonMetrics(rows, countries, mode) ==
    IF ~mode \/ Len(countries) # 2 THEN NullMetrics
    ELSE IF rows = <<>> THEN ThrownMetrics
    ELSE LET country1 == countries[1]
             country2 == countries[2]
             startingRatio == Ratio(rows[1], country1, country2)
             endingRatio == Ratio(rows[Len(rows)], country1, country2)
         IN  Metrics("metrics", startingRatio, endingRatio,
                     JSDiv(TotalGrowthDiff(rows, 2, Num(0), country1, country2),
                           Num(Len(rows) - 1)),
                     Overtakes(rows, 2, startingRatio, country1, country2))

\* the series the model hands to the component: for each year of Dates a
\* value in 0..MaxValue or no point, in ascending or descending year order,
\* with the growth fetchGDPData gives it
DatesAscending == <<Date2000, Date2001, Date2002>>
DatesDescending == <<Date2002, Date2001, Date2000>>

SeriesOf(order, valueOf) ==
    LET present == SelectSeq(order, LAMBDA d : valueOf[d].k # "undefined")
    IN  DataWithGrowth(MapRecords(
            [i \in 1..Len(present) |-> GDPRecord(present[i], valueOf[present[i]])]))

AllSeries ==
    {SeriesOf(order, valueOf) :
        order \in {DatesAscending, DatesDescending},
        valueOf \in [Dates -> {Undefined} \cup {Num(v) : v \in 0..MaxValue}]}

Country(id, name, gdpData) == [id |-> id, name |-> name, gdpData |-> gdpData]

Periods == {<<2000, 2002>>, <<2001, 2001>>, <<2003, 2004>>}

InitTimeline ==
    /\ \E s1 \in AllSeries :
          \/ countryData = <<Country("USA", "United States", s1)>>
          \/ \E s2 \in AllSeries :
                countryData = <<Country("USA", "United States", s1),
                                Country("IND", "India", s2)>>
    /\ selectedPeriod \in Periods
    /\ comparisonMode \in BOOLEAN
    /\ rendered = NotRendered
    /\ ServiceIdle
    /\ GrowthIdle
    /\ AppIdle

\* one evaluation of the two memos
Render ==
    /\ rendered.status = "none"
    /\ LET rows == CombinedData(countryData, selectedPeriod)
           metrics == ComparisonMetrics(rows, countryData, comparisonMode)
       IN  rendered' = [status |-> IF metrics.kind = "threw" THEN "threw" ELSE "rendered",
                        combinedData |-> rows, metrics |-> metrics]
    /\ UNCHANGED <<countryData, selectedPeriod, comparisonMode, serviceVars,
                   growthVars, appVars>>

NextTimeline == Render

SpecTimeline == InitTimeline /\ [][NextTimeline]_vars

----------------------------------------------------------------------------
(* Claims about the aligned rows and the comparison metrics, under         *)
(* SpecTimeline.                                                           *)

Rendered == rendered.status # "none"

YearsOf(country) == {country.gdpData[i].year : i \in 1..Len(country.gdpData)}

PointOf(country, year) ==
    country.gdpData[CHOOSE i \in 1..Len(country.gdpData) : country.gdpData[i].year = year]

\* C5: computing the comparison metrics of two series never throws: it gives
\* a metrics result, with a ratio that is no finite number wherever the
\* denominator is zero or absent, also when no aligned row is in the period.
C5_MetricsNeverThrow ==
    (Rendered /\ comparisonMode /\ Len(countryData) = 2) =>
        /\ rendered.status # "threw"
        /\ rendered.metrics.kind = "metrics"
        /\ LET rows == rendered.combinedData
                zero(row) == Get(row, countryData[2].id \o "_value")
                                \in {Undefined, Null, Num(0)}
            IN  rows # <<>> =>
                  /\ zero(rows[1]) => ~IsFinite(rendered.metrics.startingRatio)
                  /\ zero(rows[Len(rows)]) => ~IsFinite(rendered.metrics.endingRatio)

\* C7: the aligned rows are one row for each year of the period that some
\* series has a point for, in strictly ascending year order, and a row has
\* the value and growth fields of a country, with the values of its point,
\* exactly when the country has a point for the row's year.
C7_AlignedRows ==
    Rendered =>
        LET rows == rendered.combinedData
            years == {y \in UNION {YearsOf(countryData[c]) : c \in 1..Len(countryData)} :
                        selectedPeriod[1] <= y /\ y <= selectedPeriod[2]}
        IN  /\ {rows[i].year : i \in 1..Len(rows)} = years
            /\ Len(rows) = Cardinality(years)
            /\ \A i \in 1..(Len(rows) - 1) : rows[i].year < rows[i + 1].year
            /\ \A i \in 1..Len(rows) :
                  /\ DOMAIN rows[i].fields \subseteq
                        UNION {{countryData[c].id \o "_value", countryData[c].id \o "_growth"} :
                                    c \in 1..Len(countryData)}
                  /\ \A c \in 1..Len(countryData) :
                        LET country == countryData[c]
                            has == rows[i].year \in YearsOf(country)
                        IN  /\ (country.id \o "_value") \in DOMAIN rows[i].fields <=> has
                            /\ (country.id \o "_growth") \in DOMAIN rows[i].fields <=> has
                            /\ has =>
                                  /\ rows[i].fields[country.id \o "_value"]
                                        = PointOf(country, rows[i].year).value
                                  /\ rows[i].fields[country.id \o "_growth"]
                                        = PointOf(country, rows[i].year).growth

\* two series in descending order with a year outside the period, and a row
\* in which only the second country has fields
C7_Witness ==
    /\ Rendered
    /\ Len(countryData) = 2
    /\ selectedPeriod = <<2001, 2001>>
    /\ YearsOf(countryData[1]) = {2000, 2002}
    /\ YearsOf(countryData[2]) = {2000, 2001, 2002}
    /\ countryData[2].gdpData[1].year = 2002
    /\ Len(rendered.combinedData) = 1
    /\ DOMAIN rendered.combinedData[1].fields = {"IND_value", "IND_growth"}

\* the side of 1 the ratio value(country1) / value(country2) of a row lies
\* on, from the two values (which are never negative): below when both are
\* numbers and the first is the smaller, above when both are numbers and the
\* first is the larger (the ratio is Infinity when the second is 0)
Below1(row) ==
    LET v1 == Get(row, countryData[1].id \o "_value")
        v2 == Get(row, countryData[2].id \o "_value")
    IN  IsNumber(v1) /\ IsNumber(v2) /\ v1.n < v2.n

Above1(row) ==
    LET v1 == Get(row, countryData[1].id \o "_value")
        v2 == Get(row, countryData[2].id \o "_value")
    IN  IsNumber(v1) /\ IsNumber(v2) /\ v1.n > v2.n

\* C8: the overtakes are, in year order, one entry for each row i >= 1 whose
\* ratio and the ratio of row i-1 lie strictly on opposite sides of 1, with
\* the year of row i and the name of country1 when its ratio is above 1 and
\* of country2 otherwise; a row whose ratio is 1 gives no entry, as previous
\* or as current row.
C8_Overtakes ==
    rendered.metrics.kind = "metrics" =>
        LET rows == rendered.combinedData
            overtakes == rendered.metrics.overtakes
            crossing == {i \in 2..Len(rows) :
                            \/ Below1(rows[i - 1]) /\ Above1(rows[i])
                            \/ Above1(rows[i - 1]) /\ Below1(rows[i])}
        IN  /\ Len(overtakes) = Cardinality(crossing)
            /\ {overtakes[j].year : j \in 1..Len(overtakes)}
                  = {rows[i].year : i \in crossing}
            /\ \A j \in 1..(Len(overtakes) - 1) : overtakes[j].year < overtakes[j + 1].year
            /\ \A j \in 1..Len(overtakes) : \A i \in crossing :
                  overtakes[j].year = rows[i].year =>
                      overtakes[j].country =
                          IF Above1(rows[i]) THEN countryData[1].name
                          ELSE countryData[2].name

\* three rows with ratios below, above and below 1: country1 overtakes in the
\* second and country2 in the third
C8_Witness ==
    /\ rendered.metrics.kind = "metrics"
    /\ Len(rendered.combinedData) = 3
    /\ Below1(rendered.combinedData[1])
    /\ Above1(rendered.combinedData[2])
    /\ Below1(rendered.combinedData[3])
    /\ rendered.metrics.overtakes =
          <<[year |-> 2001, country |-> "United States"],
            [year |-> 2002, country |-> "India"]>>

----------------------------------------------------------------------------
(* App.tsx                                                                 *)

LoadCountriesError == "Failed to load countries. Please try again later."
LoadDataError == "Failed to load GDP data. Please try again later."

\* SAMPLE_LEADERS[countryCode] || [], each leader by name
SAMPLE_LEADERS(countryCode) ==
    IF countryCode = "USA" THEN <<"Jimmy Carter", "Ronald Reagan">> ELSE <<>>

\* availableCountries.find(c => c.code === countryCode)?.name || countryCode
NameOf(names, countryCode) ==
    IF \E i \in 1..Len(names) : names[i].code = countryCode
    THEN LET i == CHOOSE i \in 1..Len(names) :
                    /\ names[i].code = countryCode
                    /\ \A j \in 1..(i - 1) : names[j].code # countryCode
         IN  IF Truthy(names[i].name) THEN names[i].name ELSE countryCode
    ELSE countryCode

\* the value of newData[countryCode]
CountryDataOf(countryCode, names, gdpData) ==
    [id |-> countryCode, name |-> NameOf(names, countryCode),
     gdpData |-> gdpData, leaders |-> SAMPLE_LEADERS(countryCode)]

Request(code, status) == [code |-> code, status |-> status]

\* cache[cacheKey] && isCacheValid(cache[cacheKey].timestamp), in a given cache
HitIn(store, key) == store[key].present /\ isCacheValid(store[key].timestamp)

RECURSIVE loadDataEager(_, _)
\* a loop that asks for every country that is not cached without awaiting
loadDataEager(load, store) ==
    LET i == Len(load.requests) + 1
    IN  IF i > Len(load.selection)
        THEN [load EXCEPT !.pc =
                IF \E j \in 1..Len(load.requests) : load.requests[j].status = "pending"
                THEN "awaiting" ELSE "done"]
        ELSE LET countryCode == load.selection[i]
                 key == GDPKey(countryCode, load.range[1], load.range[2])
             IN  IF HitIn(store, key)
                 THEN loadDataEager(
                        [load EXCEPT
                            !.requests = Append(@, Request(countryCode, "cached")),
                            !.newData = Assign(@, countryCode,
                                CountryDataOf(countryCode, load.names, store[key].data))],
                        store)
                 ELSE loadDataEager(
                        [load EXCEPT
                            !.requests = Append(@, Request(countryCode, "pending"))],
                        store)

RECURSIVE loadData(_, _)
\* the for loop of loadData from the country after the last one asked for, up
\* to the next await that has to wait for the network: a cached series comes
\* back in the same task, a request suspends the load, and after the last
\* country the load is done
loadData(load, store) ==
    LET i == Len(load.requests) + 1
    IN  IF i > Len(load.selection) THEN [load EXCEPT !.pc = "done"]
        ELSE LET countryCode == load.selection[i]
                 key == GDPKey(countryCode, load.range[1], load.range[2])
             IN  IF HitIn(store, key)
                 THEN loadData(
                        [load EXCEPT
                            !.requests = Append(@, Request(countryCode, "cached")),
                            !.newData = Assign(@, countryCode,
                                CountryDataOf(countryCode, load.names, store[key].data))],
                        store)
                 ELSE [load EXCEPT
                            !.pc = "awaiting",
                            !.requests = Append(@, Request(countryCode, "pending"))]

\* the country a suspended load waits for
Pending(load) == load.requests[Len(load.requests)].code

Settled(load, status) ==
    [load EXCEPT !.requests[Len(load.requests)].status = status]

\* a load that steps over the country whose fetch failed
resumeSkipping(load, outcome, store) ==
    IF outcome.ok
    THEN loadData([Settled(load, "ok") EXCEPT
                        !.newData = Assign(@, Pending(load),
                            CountryDataOf(Pending(load), load.names, outcome.data))],
                  store)
    ELSE loadData(Settled(load, "failed"), store)

\* loadData from the await of line 60 on: a series is stored in newData and
\* the loop goes on, a rejection leaves the loop for the catch block
resume(load, outcome, store) ==
    IF outcome.ok
    THEN loadData([Settled(load, "ok") EXCEPT
                        !.newData = Assign(@, Pending(load),
                            CountryDataOf(Pending(load), load.names, outcome.data))],
                  store)
    ELSE [Settled(load, "failed") EXCEPT !.pc = "failed"]

\* a completion that drops the result of a load whose selection or range is
\* no longer the current one
countryDataIfCurrent(run, selection, range) ==
    IF run.pc = "done" /\ run.selection = selection /\ run.range = range
    THEN run.newData ELSE appCountryData

\* setCountryData(newData), line 70: reached when the loop ends, whatever the
\* selection and range are by then
countryDataAfter(run, selection, range) ==
    IF run.pc = "done" THEN run.newData ELSE appCountryData

\* setError('Failed to load GDP data. ...') in the catch block, line 72
errorAfter(run, before) ==
    IF run.pc = "failed" THEN LoadDataError ELSE before

\* a load without the finally block: loading is reset on success only
loadingWithoutFinally(run, before) ==
    IF run.pc = "done" THEN FALSE ELSE before

\* setLoading(false) in the finally block, line 74
loadingAfter(run, before) ==
    IF run.pc \in {"done", "failed"} THEN FALSE ELSE before

Started == {l \in LoadIds : loads[l].pc # "idle"}

InFlight == {l \in LoadIds : loads[l].pc = "awaiting"}

\* the state setters of one task in which load l has run up to `run`
Commit(l, run, selection, range, loadingBefore, errorBefore) ==
    /\ loads' = [loads EXCEPT ![l] = run]
    /\ appCountryData' = countryDataAfter(run, selection, range)
    /\ displayedFrom' = IF run.pc = "done" THEN l ELSE displayedFrom
    /\ error' = errorAfter(run, errorBefore)
    /\ loading' = loadingAfter(run, loadingBefore)

\* the second effect, run for new values of its dependencies: loadData is
\* called for a selection that is not empty, and runs up to its first await
\* after setLoading(true) and setError(null)
Effect(selection, range, names, store, errorBefore) ==
    IF Len(selection) > 0
    THEN /\ Cardinality(Started) < MaxLoads
         /\ Commit(Cardinality(Started) + 1,
                   loadData([NoLoad EXCEPT !.selection = selection,
                                           !.range = range, !.names = names],
                            store),
                   selection, range, TRUE, "null")
    ELSE /\ error' = errorBefore
         /\ UNCHANGED <<loads, appCountryData, displayedFrom, loading>>

\* [...selectedCountries, code] for a box that gets checked and
\* selectedCountries.filter(c => c !== code) for one that gets unchecked
Toggled(selection, code) ==
    IF \E i \in 1..Len(selection) : selection[i] = code
    THEN SelectSeq(selection, LAMBDA c : c # code)
    ELSE Append(selection, code)

\* what is typed into the two year inputs
StartYearInputs == {<<2, 0, 0, 0>>}
EndYearInputs == {<<2, 0, 1, 0>>}

\* the responses of the model to the requests of the App
AppGDPResponses ==
    {Response("error", <<>>), Response("missing", <<>>),
     Response("records", <<GDPRecord(Date2001, Num(2)), GDPRecord(Date2000, Num(1))>>)}

AppCountryResponses ==
    {Response("error", <<>>), Response("records", <<>>),
     Response("records", <<USA, WLD, IND>>), Response("records", <<USA, XKX>>)}

\* the App once it is mounted and both effects have run: loadCountries and
\* the load of ['USA'] over [1980, 2023] each wait for their request
InitApp ==
    /\ ServiceIdle
    /\ GrowthIdle
    /\ TimelineIdle
    /\ selectedCountries = <<"USA">>
    /\ appCountryData = [code \in {} |-> <<>>]
    /\ timeRange = <<1980, 2023>>
    /\ availableCountries = <<>>
    /\ countriesLoad = "awaiting"
    /\ loads = [l \in LoadIds |->
                 IF l = 1
                 THEN loadData([NoLoad EXCEPT !.selection = <<"USA">>,
                                              !.range = <<1980, 2023>>],
                               [key \in Keys |-> NoEntry])
                 ELSE NoLoad]
    /\ displayedFrom = 0
    /\ error = "null"
    /\ loading = TRUE

\* a checkbox of the CountrySelector is clicked
ToggleCountry(code) ==
    /\ \E i \in 1..Len(availableCountries) : availableCountries[i].code = code
    /\ selectedCountries' = Toggled(selectedCountries, code)
    /\ Effect(selectedCountries', timeRange, availableCountries, cache, error)
    /\ UNCHANGED <<timeRange, availableCountries, countriesLoad,
                   serviceVars, growthVars, timelineVars>>

\* onChange of the start year input
SetStartYear(input) ==
    /\ ParseInt(input) # timeRange[1]
    /\ timeRange' = <<ParseInt(input), timeRange[2]>>
    /\ Effect(selectedCountries, timeRange', availableCountries, cache, error)
    /\ UNCHANGED <<selectedCountries, availableCountries, countriesLoad,
                   serviceVars, growthVars, timelineVars>>

\* onChange of the end year input
SetEndYear(input) ==
    /\ ParseInt(input) # timeRange[2]
    /\ timeRange' = <<timeRange[1], ParseInt(input)>>
    /\ Effect(selectedCountries, timeRange', availableCountries, cache, error)
    /\ UNCHANGED <<selectedCountries, availableCountries, countriesLoad,
                   serviceVars, growthVars, timelineVars>>

\* the request of loadCountries comes back: fetchCountries caches and returns
\* the list, setAvailableCountries renders anew and the second effect runs
\* for the new list; a failure sets the error message
CountriesArrive(resp) ==
    /\ countriesLoad = "awaiting"
    /\ LET outcome == CountriesOutcome(resp)
       IN  /\ cache' = CacheAfter(CountriesKey, outcome)
           /\ IF outcome.ok
              THEN /\ countriesLoad' = "done"
                   /\ availableCountries' = outcome.data
                   /\ Effect(selectedCountries, timeRange, outcome.data, cache', error)
              ELSE /\ countriesLoad' = "failed"
                   /\ error' = LoadCountriesError
                   /\ UNCHANGED <<availableCountries, loads, appCountryData,
                                  displayedFrom, loading>>
    /\ UNCHANGED <<selectedCountries, timeRange, now, calls, growthVars, timelineVars>>

\* the request of a suspended load comes back: fetchGDPData caches and
\* returns the series or throws, and loadData runs on to its next request or
\* to its end
GDPArrives(l, resp) ==
    /\ loads[l].pc = "awaiting"
    /\ LET load == loads[l]
           key == GDPKey(Pending(load), load.range[1], load.range[2])
           outcome == GDPOutcome(resp)
       IN  /\ cache' = CacheAfter(key, outcome)
           /\ Commit(l, resume(load, outcome, cache'), selectedCountries, timeRange,
                     loading, error)
    /\ UNCHANGED <<selectedCountries, timeRange, availableCountries, countriesLoad,
                   now, calls, growthVars, timelineVars>>

NextApp ==
    \/ \E code \in Codes : ToggleCountry(code)
    \/ \E input \in StartYearInputs : SetStartYear(input)
    \/ \E input \in EndYearInputs : SetEndYear(input)
    \/ \E resp \in AppCountryResponses : CountriesArrive(resp)
    \/ \E l \in LoadIds, resp \in AppGDPResponses : GDPArrives(l, resp)

\* a session of the App that is shorter than CACHE_DURATION: the clock stands
SpecApp == InitApp /\ [][NextApp]_vars

\* every request gets its response
SpecAppFair ==
    /\ SpecApp
    /\ WF_vars(\E resp \in AppCountryResponses : CountriesArrive(resp))
    /\ \A l \in LoadIds : WF_vars(\E resp \in AppGDPResponses : GDPArrives(l, resp))
----------------------------------------------------------------------------
(* Claims about App.tsx, checked under SpecApp and SpecAppFair.            *)

\* the last request of load l fails in this step
FetchFails(l) ==
    /\ loads[l].pc = "awaiting"
    /\ loads'[l].requests[Len(loads[l].requests)].status = "failed"

Answered(load) ==
    \A i \in 1..Len(load.requests) : load.requests[i].status \in {"ok", "cached"}

\* C11: when the fetch of one country of a load fails, the load ends as
\* failed: the error message is set, loading is reset, no further country
\* is asked for, nothing is written to the cache, and the displayed country
\* data stays as it is; a failed load never runs again, and the displayed
\* data only ever changes to the newData of a load all of whose countries
\* were answered.
C11_FailureFailsWholeLoad ==
    [][/\ \A l \in LoadIds :
            /\ FetchFails(l) =>
                    /\ loads'[l].pc = "failed"
                    /\ error' = LoadDataError
                    /\ loading' = FALSE
                    /\ Len(loads'[l].requests) = Len(loads[l].requests)
                    /\ appCountryData' = appCountryData
                    /\ displayedFrom' = displayedFrom
                    /\ cache' = cache
            /\ loads[l].pc = "failed" => loads'[l] = loads[l]
       /\ appCountryData' # appCountryData =>
            \E l \in LoadIds :
                /\ loads[l].pc # "done" /\ loads'[l].pc = "done"
                /\ Answered(loads'[l])
                /\ Len(loads'[l].requests) = Len(loads'[l].selection)
                /\ appCountryData' = loads'[l].newData
      ]_vars

\* a load of two countries has the series of the first and failed on the
\* second; the error is shown and the series of the first is not displayed
C11_Witness ==
    \E l \in LoadIds :
        /\ loads[l].pc = "failed"
        /\ Len(loads[l].selection) = 2
        /\ Len(loads[l].requests) = 2
        /\ loads[l].requests[1].status = "ok"
        /\ loads[l].requests[2].status = "failed"
        /\ DOMAIN loads[l].newData = {loads[l].selection[1]}
        /\ appCountryData # loads[l].newData
        /\ error = LoadDataError
        /\ loading = FALSE
\* C12: a change of the selection or of the year range leaves every load in
\* flight as it is, and a load that comes to its end writes its result
\* whatever the selection and range are by then: its newData becomes the
\* displayed data on success, the error message is set on failure, and
\* loading is reset in both cases.
C12_StaleLoadOverwrites ==
    [][\A l \in LoadIds :
            /\ (/\ loads[l].pc = "awaiting"
                /\ \/ selectedCountries' # selectedCountries
                   \/ timeRange' # timeRange)
                    => loads'[l] = loads[l]
            /\ (loads[l].pc = "awaiting" /\ loads'[l].pc = "done")
                    => /\ appCountryData' = loads'[l].newData
                       /\ displayedFrom' = l
                       /\ loading' = FALSE
            /\ (loads[l].pc = "awaiting" /\ loads'[l].pc = "failed")
                    => /\ error' = LoadDataError
                       /\ loading' = FALSE
      ]_vars

\* loading is false and the displayed data is that of an older load for a
\* selection that is no longer the current one, although the newer load for
\* the current selection and range has delivered its result
C12_Witness ==
    \E l \in LoadIds, newer \in LoadIds :
        /\ l < newer
        /\ loading = FALSE
        /\ loads[l].pc = "done" /\ loads[newer].pc = "done"
        /\ displayedFrom = l
        /\ appCountryData = loads[l].newData
        /\ loads[l].selection # selectedCountries
        /\ loads[newer].selection = selectedCountries
        /\ loads[newer].range = timeRange
        /\ DOMAIN appCountryData # {selectedCountries[i] : i \in 1..Len(selectedCountries)}
        /\ DOMAIN loads[newer].newData = {selectedCountries[i] : i \in 1..Len(selectedCountries)}
PendingRequests(load) ==
    {i \in 1..Len(load.requests) : load.requests[i].status = "pending"}

\* C13: the countries a load has asked for are the first countries of its
\* selection, in selection order; every one before the last was answered
\* with a series, so the next one is asked for only after that; and the load
\* has at most one request pending, which is its last one, exactly while it
\* is suspended.
C13_SequentialFetches ==
    \A l \in LoadIds :
        LET load == loads[l]
        IN  /\ Len(load.requests) <= Len(load.selection)
            /\ \A i \in 1..Len(load.requests) :
                    /\ load.requests[i].code = load.selection[i]
                    /\ i < Len(load.requests) =>
                            load.requests[i].status \in {"ok", "cached"}
            /\ Cardinality(PendingRequests(load)) <= 1
            /\ load.pc = "awaiting" <=> PendingRequests(load) = {Len(load.requests)}
            /\ load.pc # "awaiting" => PendingRequests(load) = {}

\* a load of two countries waits for the second after the request for the
\* first came back with a series
C13_Witness ==
    \E l \in LoadIds :
        /\ loads[l].pc = "awaiting"
        /\ Len(loads[l].selection) = 2
        /\ Len(loads[l].requests) = 2
        /\ loads[l].requests[1].status = "ok"
        /\ loads[l].requests[2].status = "pending"
\* C15: loading is true whenever a load is in flight, that is started and
\* neither finished nor failed.
C15_LoadingWhileInFlight ==
    InFlight # {} => loading = TRUE
Over(load) == load.pc \in {"done", "failed"}

SelectionOf(load) == {load.selection[i] : i \in 1..Len(load.selection)}

\* C16: when every request gets its response, a load that has started comes
\* to its end; and the step in which it ends resets loading and either sets
\* the error message and leaves the country data alone (the load failed), or
\* replaces the country data by newData, which holds one record with a
\* series for each country of the selection the load started with.
C16_LoadEnds ==
    /\ \A l \in LoadIds : (loads[l].pc # "idle") ~> Over(loads[l])
    /\ [][\A l \in LoadIds :
            (~Over(loads[l]) /\ Over(loads'[l])) =>
                /\ loading' = FALSE
                /\ \/ /\ loads'[l].pc = "failed"
                      /\ error' = LoadDataError
                      /\ appCountryData' = appCountryData
                   \/ /\ loads'[l].pc = "done"
                      /\ appCountryData' = loads'[l].newData
                      /\ DOMAIN appCountryData' = SelectionOf(loads'[l])
                      /\ \A code \in SelectionOf(loads'[l]) :
                            /\ appCountryData'[code].id = code
                            /\ \E resp \in AppGDPResponses :
                                  /\ GDPOutcome(resp).ok
                                  /\ appCountryData'[code].gdpData = GDPOutcome(resp).data
      ]_vars

\* one load has failed and a later load of two countries has ended with
\* the records of both on display
C16_Witness ==
    \E l \in LoadIds, f \in LoadIds :
        /\ loads[f].pc = "failed"
        /\ loads[l].pc = "done"
        /\ Len(loads[l].selection) = 2
        /\ displayedFrom = l
        /\ appCountryData = loads[l].newData
        /\ DOMAIN appCountryData = {"USA", "IND"}
        /\ InFlight = {}
        /\ loading = FALSE

====
